---- MODULE Spec2Model ----
(***************************************************************************)
(* State-machine model of the real-time layer of the dashboard:            *)
(*   - WebSocketProvider (frontend/hooks/useWebSocket.tsx): the live       *)
(*     channel client, its reconnect loop and its inbound frame handler;   *)
(*   - BrainSaitApp (brainsait-website/public/enhanced-app.js): the        *)
(*     metrics poller driven by setInterval;                               *)
(*   - Dashboard (the page using useWebSocket and useQuery): its fetchers. *)
(* Specifications:                                                         *)
(*   Spec       the provider with every operation;                         *)
(*   SpecLife   the provider's connection lifecycle (FairLife: with timer  *)
(*              expiry weakly fair);                                       *)
(*   SpecFrames one mounted provider receiving frames;                     *)
(*   SpecPoll   BrainSaitApp's poller;                                     *)
(*   SpecQuery  the Dashboard's queries.                                   *)
(***************************************************************************)
EXTENDS Integers, Sequences, FiniteSets, TLC

VARIABLES
    mounted,      \* the provider's effect is active (between effect run and cleanup)
    inst,         \* id of the current provider instance (0: none mounted yet)
    effectRuns,   \* number of times the effect body has run
    socket,       \* React state `socket` of the current instance (Null or a slot)
    isConnected,  \* React state `isConnected`
    data,         \* React state `data` as last rendered
    updates,      \* setData updater calls queued by React, not yet rendered
    cleanupSocket,\* value of `socket` captured by the effect's cleanup closure
    ws,           \* the WebSocket objects: slot -> [st, owner]
    inbox,        \* message events queued by the browser for each WebSocket
    timers,       \* pending setTimeout(connect, delay) callbacks (a bag)
    toasts,       \* every toast raised so far
    frameCount,   \* number of frames the network has delivered so far
    arrived,      \* history: frames received through each slot, in order
    handled,      \* history: runs of ws.onmessage for each slot, in order
    attempt,      \* flips in every step that invokes connect()
    sent,         \* history: the texts passed to socket.send, with their socket
    sendCalls,    \* number of sendMessage calls made by consumers so far
    metrics,      \* BrainSaitApp.metrics
    appConnected, \* BrainSaitApp.isConnected
    statusShown,  \* text last written by updateConnectionStatus
    displayed,    \* request counter last written by updateMetricsDisplay
    calls,        \* the updateMetrics invocations: id -> phase and response body
    ticks,        \* number of interval ticks fired so far
    pollStarted,  \* startRealTimeUpdates has installed the intervals
    tornDown,     \* the host has ended the dashboard session
    syncBtn,      \* BrainSaitApp: innerHTML and disabled of the #syncBtn element
    syncCalls,    \* BrainSaitApp: the syncContent invocations
    qData,        \* Dashboard: data of each useQuery
    qFetching,    \* Dashboard: a fetcher call of the query is in flight
    qLast,        \* Dashboard: how the last response of each query ended
    qRefetches,   \* Dashboard: number of refetch() calls made for each query
    platCalls,    \* BrainSaitPlatform: the updateMetrics invocations
    platTicks,    \* BrainSaitPlatform: number of interval ticks fired so far
    platShown,    \* BrainSaitPlatform: number last written to each counter element
    mcpReqs,      \* MCP server: the messages received, with their handler's state
    mcpOut,       \* MCP server: the responses passed to ws.send, in order
    mcpAlive      \* MCP server: the node process is running

sendVars == <<sent, sendCalls>>
wsVars   == <<mounted, inst, effectRuns, socket, isConnected, data, updates,
             cleanupSocket, ws, inbox, timers, toasts, frameCount, arrived,
             handled, attempt, sendVars>>
syncVars == <<syncBtn, syncCalls>>
appVars  == <<metrics, appConnected, statusShown, displayed, calls, ticks, pollStarted,
             tornDown, syncVars>>
qVars    == <<qData, qFetching, qLast, qRefetches>>
platVars == <<platCalls, platTicks, platShown>>
mcpVars  == <<mcpReqs, mcpOut, mcpAlive>>
pollVars == <<appVars, qVars, platVars, mcpVars>>
vars     == <<wsVars, pollVars>>

(***************************************************************************)
(* Bounds of the exploration.                                              *)
(***************************************************************************)
MaxMounts == 2    \* effect runs (mounts and re-runs) explored
MaxFrames == 2    \* inbound frames delivered in total
MaxTicks  == 3    \* interval ticks of the poller
MaxPlatTicks == 2 \* interval ticks of the landing-page poller
MaxSends  == 2    \* sendMessage calls made by consumers
MaxSyncs  == 3    \* syncContent invocations
MaxReqs   == 2    \* messages received by the MCP filesystem server

Null  == 0
Slots == 1..MaxMounts
Insts == 1..MaxMounts

(***************************************************************************)
(* JSON values.  An object maps every key of Keys to a value, Undef        *)
(* standing for an absent key.                                             *)
(***************************************************************************)
Keys  == {"type", "agent_id", "error", "alert", "cpu"}
Undef == [t |-> "undef"]
Str(s) == [t |-> "str", s |-> s]
AlertObj(atype, title) == [t |-> "alert", atype |-> atype, title |-> title]
EmptyObj == [k \in Keys |-> Undef]
Obj(type, agent, err, alert, cpu) ==
    [k \in Keys |-> CASE k = "type"     -> type
                      [] k = "agent_id" -> agent
                      [] k = "error"    -> err
                      [] k = "alert"    -> alert
                      [] k = "cpu"      -> cpu]

\* The frame texts the network may deliver.
RawFrames ==
    { "{\"type\":\"agent_execution_complete\",\"agent_id\":\"a1\"}",
      "{\"type\":\"agent_execution_error\",\"agent_id\":\"a1\",\"error\":\"boom\"}",
      "{\"type\":\"new_alert\",\"alert\":{\"type\":\"critical\",\"title\":\"X\"}}",
      "{\"type\":\"new_alert\",\"alert\":{\"type\":\"warning\",\"title\":\"W\"}}",
      "{\"type\":\"new_alert\",\"alert\":{\"type\":\"info\",\"title\":\"I\"}}",
      "{\"type\":\"metrics_update\",\"cpu\":\"42\"}",
      "{\"type\":\"new_alert\"}",
      "not json" }

\* JSON.parse on the frame texts above: ok = FALSE is a SyntaxError.
JSONparse(raw) ==
    CASE raw = "{\"type\":\"agent_execution_complete\",\"agent_id\":\"a1\"}" ->
            [ok |-> TRUE, obj |-> Obj(Str("agent_execution_complete"), Str("a1"), Undef, Undef, Undef)]
      [] raw = "{\"type\":\"agent_execution_error\",\"agent_id\":\"a1\",\"error\":\"boom\"}" ->
            [ok |-> TRUE, obj |-> Obj(Str("agent_execution_error"), Str("a1"), Str("boom"), Undef, Undef)]
      [] raw = "{\"type\":\"new_alert\",\"alert\":{\"type\":\"critical\",\"title\":\"X\"}}" ->
            [ok |-> TRUE, obj |-> Obj(Str("new_alert"), Undef, Undef, AlertObj("critical", "X"), Undef)]
      [] raw = "{\"type\":\"new_alert\",\"alert\":{\"type\":\"warning\",\"title\":\"W\"}}" ->
            [ok |-> TRUE, obj |-> Obj(Str("new_alert"), Undef, Undef, AlertObj("warning", "W"), Undef)]
      [] raw = "{\"type\":\"new_alert\",\"alert\":{\"type\":\"info\",\"title\":\"I\"}}" ->
            [ok |-> TRUE, obj |-> Obj(Str("new_alert"), Undef, Undef, AlertObj("info", "I"), Undef)]
      [] raw = "{\"type\":\"metrics_update\",\"cpu\":\"42\"}" ->
            [ok |-> TRUE, obj |-> Obj(Str("metrics_update"), Undef, Undef, Undef, Str("42"))]
      [] raw = "{\"type\":\"new_alert\"}" ->
            [ok |-> TRUE, obj |-> Obj(Str("new_alert"), Undef, Undef, Undef, Undef)]
      [] OTHER -> [ok |-> FALSE, obj |-> EmptyObj]

\* A merge in which the keys already present win.
MergeKeepsOld(prev, message) ==
    [k \in Keys |-> IF prev[k] # Undef THEN prev[k] ELSE message[k]]

\* ({ ...prev, ...message }): keys of message override those of prev.
Merge(prev, message) ==
    [k \in Keys |-> IF message[k] # Undef THEN message[k] ELSE prev[k]]

\* Template-literal interpolation of a value.
ToText(v) ==
    CASE v.t = "str"   -> v.s
      [] v.t = "undef" -> "undefined"
      [] OTHER         -> "[object Object]"

Toast(level, text) == [level |-> level, text |-> text]

\* Exceptions.  A statement that can throw is identified by its source line, a
\* try block by the lines of its `try {` and of its closing brace; the
\* exception is caught when the statement lies inside the block.
Caught(site, try) == try.from <= site /\ site <= try.to

ParseSite     == 32   \* JSON.parse(event.data)
AlertTypeSite == 42   \* alert.type with alert undefined

\* ws.onmessage wrapping only JSON.parse and setData in its try block.
OnMessageTryParseOnly == [from |-> 31, to |-> 33]

\* The try block of ws.onmessage.
OnMessageTry == [from |-> 31, to |-> 50]

\* MessageToasts with the warning branch missing: a warning alert falls
\* through to the last branch.
MessageToastsNoWarning(message) ==
    CASE message["type"] = Str("agent_execution_complete") ->
            [threw |-> FALSE,
             out |-> <<Toast("success", <<"Agent", ToText(message["agent_id"]), "completed task">>)>>]
      [] message["type"] = Str("agent_execution_error") ->
            [threw |-> FALSE,
             out |-> <<Toast("error", <<"Agent", ToText(message["agent_id"]), "failed:",
                                        ToText(message["error"])>>)>>]
      [] message["type"] = Str("new_alert") ->
            IF message["alert"].t # "alert"
            THEN [threw |-> TRUE, out |-> <<>>]
            ELSE IF message["alert"].atype = "critical"
                 THEN [threw |-> FALSE, out |-> <<Toast("error", <<message["alert"].title>>)>>]
                 ELSE [threw |-> FALSE, out |-> <<Toast("success", <<message["alert"].title>>)>>]
      [] OTHER -> [threw |-> FALSE, out |-> <<>>]

\* MessageToasts announcing a frame of any other type as well.
MessageToastsAnnouncesAll(message) ==
    CASE message["type"] = Str("agent_execution_complete") ->
            [threw |-> FALSE,
             out |-> <<Toast("success", <<"Agent", ToText(message["agent_id"]), "completed task">>)>>]
      [] message["type"] = Str("agent_execution_error") ->
            [threw |-> FALSE,
             out |-> <<Toast("error", <<"Agent", ToText(message["agent_id"]), "failed:",
                                        ToText(message["error"])>>)>>]
      [] message["type"] = Str("new_alert") ->
            IF message["alert"].t # "alert"
            THEN [threw |-> TRUE, out |-> <<>>]
            ELSE IF message["alert"].atype = "critical"
                 THEN [threw |-> FALSE, out |-> <<Toast("error", <<message["alert"].title>>)>>]
                 ELSE IF message["alert"].atype = "warning"
                      THEN [threw |-> FALSE,
                            out |-> <<Toast("warning", <<message["alert"].title>>)>>]
                      ELSE [threw |-> FALSE,
                            out |-> <<Toast("success", <<message["alert"].title>>)>>]
      [] OTHER -> [threw |-> FALSE, out |-> <<Toast("success", <<ToText(message["type"])>>)>>]

\* The toasts of ws.onmessage for a parsed message, and whether the handler
\* threw (message.alert undefined makes alert.type a TypeError, which the
\* handler's catch swallows after setData has been called).
MessageToasts(message) ==
    CASE message["type"] = Str("agent_execution_complete") ->
            [threw |-> FALSE,
             out |-> <<Toast("success", <<"Agent", ToText(message["agent_id"]), "completed task">>)>>]
      [] message["type"] = Str("agent_execution_error") ->
            [threw |-> FALSE,
             out |-> <<Toast("error", <<"Agent", ToText(message["agent_id"]), "failed:",
                                        ToText(message["error"])>>)>>]
      [] message["type"] = Str("new_alert") ->
            IF message["alert"].t # "alert"
            THEN [threw |-> TRUE, out |-> <<>>]
            ELSE IF message["alert"].atype = "critical"
                 THEN [threw |-> FALSE, out |-> <<Toast("error", <<message["alert"].title>>)>>]
                 ELSE IF message["alert"].atype = "warning"
                      THEN [threw |-> FALSE, out |-> <<Toast("warning", <<message["alert"].title>>)>>]
                      ELSE [threw |-> FALSE, out |-> <<Toast("success", <<message["alert"].title>>)>>]
      [] OTHER -> [threw |-> FALSE, out |-> <<>>]

\* HandleFrame surfacing a parse failure to the user as an error toast.
HandleFrameToastsParseError(raw) ==
    LET p == JSONparse(raw) IN
    IF ~p.ok
    THEN [merged |-> FALSE, message |-> EmptyObj,
          out |-> <<Toast("error", <<"Failed to parse WebSocket message">>)>>,
          escaped |-> ~Caught(ParseSite, OnMessageTry)]
    ELSE [merged |-> TRUE, message |-> p.obj, out |-> MessageToasts(p.obj).out,
          escaped |-> MessageToasts(p.obj).threw /\ ~Caught(AlertTypeSite, OnMessageTry)]

\* What one run of ws.onmessage does with a frame text: whether setData was
\* called, with which message, and the toasts raised.
\* escaped: the exception thrown by the run was not caught by the handler.
HandleFrame(raw) ==
    LET p == JSONparse(raw) IN
    IF ~p.ok
    THEN [merged |-> FALSE, message |-> EmptyObj, out |-> <<>>,
          escaped |-> ~Caught(ParseSite, OnMessageTry)]
    ELSE [merged |-> TRUE, message |-> p.obj, out |-> MessageToasts(p.obj).out,
          escaped |-> MessageToasts(p.obj).threw /\ ~Caught(AlertTypeSite, OnMessageTry)]

(***************************************************************************)
(* WebSocketProvider.                                                      *)
(***************************************************************************)
ReconnectDelay      == 3000   \* setTimeout(connect, 3000) in ws.onclose
ConstructRetryDelay == 5000   \* setTimeout(connect, 5000) in connect's catch

TimerKinds == [delay : {ReconnectDelay, ConstructRetryDelay}, owner : Insts]
FreeWs     == [st |-> "free", owner |-> 0]

\* State setters of instance o take effect only while that instance is mounted.
Alive(o) == mounted /\ o = inst

Schedule(t, delay, o) ==
    [t EXCEPT ![[delay |-> delay, owner |-> o]] = @ + 1]

FreeSlots(w) == {s \in Slots : w[s].st = "free"}
LowestFree(w) == CHOOSE s \in FreeSlots(w) : \A r \in FreeSlots(w) : s <= r

\* Connect whose catch block retries after the delay used by ws.onclose.
ConnectRetryAfterReconnectDelay(o, w, t) ==
    {[ws |-> [w EXCEPT ![s] = [st |-> "connecting", owner |-> o]], timers |-> t] :
        s \in IF FreeSlots(w) = {} THEN {} ELSE {LowestFree(w)}}
    \cup {[ws |-> w, timers |-> Schedule(t, ReconnectDelay, o)]}

\* connect() called by instance o, as the set of its possible results: either
\* new WebSocket(...) succeeds and a transport starts connecting, or the
\* constructor throws and the catch block schedules connect again.  No state
\* of the client is consulted before the transport is constructed.
Connect(o, w, t) ==
    {[ws |-> [w EXCEPT ![s] = [st |-> "connecting", owner |-> o]], timers |-> t] :
        s \in IF FreeSlots(w) = {} THEN {} ELSE {LowestFree(w)}}
    \cup {[ws |-> w, timers |-> Schedule(t, ConstructRetryDelay, o)]}

\* The cleanup returned by the effect: closes the socket its closure captured.
Cleanup(w, captured) ==
    IF captured # Null /\ w[captured].st \in {"connecting", "open"}
    THEN [w EXCEPT ![captured].st = "closing"]
    ELSE w

\* First render of a new provider instance, then its effect: connect().
\* The cleanup closure captures the `socket` of that render.
Mount ==
    /\ ~mounted
    /\ effectRuns < MaxMounts
    /\ mounted' = TRUE
    /\ inst' = inst + 1
    /\ effectRuns' = effectRuns + 1
    /\ socket' = Null
    /\ isConnected' = FALSE
    /\ data' = EmptyObj
    /\ updates' = <<>>
    /\ cleanupSocket' = socket'
    /\ \E r \in Connect(inst', ws, timers) : ws' = r.ws /\ timers' = r.timers
    /\ attempt' = ~attempt
    /\ UNCHANGED <<inbox, toasts, frameCount, arrived, handled, sendVars, pollVars>>

\* Mounting under React StrictMode: in the same commit the effect runs, is
\* cleaned up and runs again on the same instance, with the closures of the
\* same render.
MountStrict ==
    /\ ~mounted
    /\ effectRuns + 2 <= MaxMounts
    /\ mounted' = TRUE
    /\ inst' = inst + 1
    /\ effectRuns' = effectRuns + 2
    /\ socket' = Null
    /\ isConnected' = FALSE
    /\ data' = EmptyObj
    /\ updates' = <<>>
    /\ cleanupSocket' = socket'
    /\ \E r1 \in Connect(inst', ws, timers) :
         \E r2 \in Connect(inst', Cleanup(r1.ws, cleanupSocket'), r1.timers) :
            ws' = r2.ws /\ timers' = r2.timers
    /\ attempt' = ~attempt
    /\ UNCHANGED <<inbox, toasts, frameCount, arrived, handled, sendVars, pollVars>>

\* The provider unmounts: the effect's cleanup runs.
Teardown ==
    /\ mounted
    /\ mounted' = FALSE
    /\ ws' = Cleanup(ws, cleanupSocket)
    /\ updates' = <<>>
    /\ UNCHANGED <<inst, effectRuns, socket, isConnected, data, cleanupSocket, inbox,
                   timers, toasts, frameCount, arrived, handled, attempt, sendVars, pollVars>>

\* ws.onopen
Open(s) ==
    /\ ws[s].st = "connecting"
    /\ ws' = [ws EXCEPT ![s].st = "open"]
    /\ IF Alive(ws[s].owner)
       THEN isConnected' = TRUE /\ socket' = s
       ELSE UNCHANGED <<isConnected, socket>>
    /\ toasts' = toasts \cup {Toast("success", <<"Connected to real-time updates">>)}
    /\ UNCHANGED <<mounted, inst, effectRuns, data, updates, cleanupSocket, inbox,
                   timers, frameCount, arrived, handled, attempt, sendVars, pollVars>>

\* ws.onerror: the transport failed; the browser delivers close next.
Error(s) ==
    /\ ws[s].st \in {"connecting", "open", "closing"}
    /\ ws' = [ws EXCEPT ![s].st = "failed"]
    /\ toasts' = toasts \cup {Toast("error", <<"Connection error">>)}
    /\ UNCHANGED <<mounted, inst, effectRuns, socket, isConnected, data, updates,
                   cleanupSocket, inbox, timers, frameCount, arrived, handled, attempt,
                   sendVars, pollVars>>

\* Close without the setTimeout(connect, 3000).
CloseNoReconnect(s) ==
    /\ ws[s].st \in {"open", "closing", "failed"}
    /\ inbox[s] = <<>>
    /\ ws' = [ws EXCEPT ![s] = FreeWs]
    /\ IF Alive(ws[s].owner)
       THEN isConnected' = FALSE /\ socket' = Null
       ELSE UNCHANGED <<isConnected, socket>>
    /\ toasts' = toasts \cup {Toast("error", <<"Disconnected from real-time updates">>)}
    /\ UNCHANGED <<mounted, inst, effectRuns, data, updates, cleanupSocket, inbox,
                   timers, frameCount, arrived, handled, attempt, sendVars, pollVars>>

\* ws.onclose, dispatched after the message events queued before it.
Close(s) ==
    /\ ws[s].st \in {"open", "closing", "failed"}
    /\ inbox[s] = <<>>
    /\ ws' = [ws EXCEPT ![s] = FreeWs]
    /\ IF Alive(ws[s].owner)
       THEN isConnected' = FALSE /\ socket' = Null
       ELSE UNCHANGED <<isConnected, socket>>
    /\ toasts' = toasts \cup {Toast("error", <<"Disconnected from real-time updates">>)}
    /\ timers' = Schedule(timers, ReconnectDelay, ws[s].owner)
    /\ UNCHANGED <<mounted, inst, effectRuns, data, updates, cleanupSocket, inbox,
                   frameCount, arrived, handled, attempt, sendVars, pollVars>>

\* A reconnect timer expires: setTimeout's callback is connect.
TimerFire(k) ==
    /\ timers[k] > 0
    /\ \E r \in Connect(k.owner, ws, [timers EXCEPT ![k] = @ - 1]) :
          ws' = r.ws /\ timers' = r.timers
    /\ attempt' = ~attempt
    /\ UNCHANGED <<mounted, inst, effectRuns, socket, isConnected, data, updates,
                   cleanupSocket, inbox, toasts, frameCount, arrived, handled, sendVars, pollVars>>

\* The network delivers a frame: the browser queues a message event.
Deliver(s, raw) ==
    /\ ws[s].st = "open"
    /\ frameCount < MaxFrames
    /\ frameCount' = frameCount + 1
    /\ inbox' = [inbox EXCEPT ![s] = Append(@, raw)]
    /\ arrived' = [arrived EXCEPT ![s] = Append(@, raw)]
    /\ UNCHANGED <<mounted, inst, effectRuns, socket, isConnected, data, updates,
                   cleanupSocket, ws, timers, toasts, handled, attempt, sendVars, pollVars>>

\* OnMessage run for the newest queued message event instead of the oldest.
OnMessageNewestFirst(s) ==
    /\ inbox[s] # <<>>
    /\ LET newest == inbox[s][Len(inbox[s])]
           r == HandleFrame(newest) IN
         /\ updates' = IF r.merged /\ Alive(ws[s].owner)
                       THEN Append(updates, r.message) ELSE updates
         /\ toasts' = toasts \cup {r.out[i] : i \in 1..Len(r.out)}
         /\ handled' = [handled EXCEPT ![s] =
                           Append(@, [frame |-> newest, merged |-> r.merged,
                                      out |-> r.out, escaped |-> r.escaped])]
    /\ inbox' = [inbox EXCEPT ![s] = SubSeq(@, 1, Len(@) - 1)]
    /\ UNCHANGED <<mounted, inst, effectRuns, socket, isConnected, data, cleanupSocket,
                   ws, timers, frameCount, arrived, attempt, sendVars, pollVars>>

\* ws.onmessage runs for the oldest queued message event.
OnMessage(s) ==
    /\ inbox[s] # <<>>
    /\ LET r == HandleFrame(Head(inbox[s])) IN
         /\ updates' = IF r.merged /\ Alive(ws[s].owner)
                       THEN Append(updates, r.message) ELSE updates
         /\ toasts' = toasts \cup {r.out[i] : i \in 1..Len(r.out)}
         /\ handled' = [handled EXCEPT ![s] =
                           Append(@, [frame |-> Head(inbox[s]), merged |-> r.merged,
                                      out |-> r.out, escaped |-> r.escaped])]
    /\ inbox' = [inbox EXCEPT ![s] = Tail(@)]
    /\ UNCHANGED <<mounted, inst, effectRuns, socket, isConnected, data, cleanupSocket,
                   ws, timers, frameCount, arrived, attempt, sendVars, pollVars>>

\* Outbound messages.  Consumers call subscribe(topic) with the documented
\* topics, or sendMessage(message) with a message of their own.
Topics == {"agent-metrics", "compliance-alerts"}

SubscribeMessage(topic) == [type |-> "subscribe", topic |-> topic]

DirectMessages == {[type |-> "ping", topic |-> ""]}

\* JSON.stringify of an outbound message.
JSONstringify(message) ==
    CASE message.type = "ping" -> "{\"type\":\"ping\"}"
      [] message.type = "subscribe" /\ message.topic = "agent-metrics" ->
            "{\"type\":\"subscribe\",\"topic\":\"agent-metrics\"}"
      [] message.type = "subscribe" /\ message.topic = "compliance-alerts" ->
            "{\"type\":\"subscribe\",\"topic\":\"compliance-alerts\"}"

\* WebSocket.readyState of a transport.
ReadyState(w) ==
    CASE w.st = "connecting" -> "CONNECTING"
      [] w.st = "open"       -> "OPEN"
      [] w.st = "closing"    -> "CLOSING"
      [] OTHER               -> "CLOSED"

\* sendMessage without the readyState test.
SendMessageNoReadyCheck(message) ==
    /\ mounted
    /\ sendCalls < MaxSends
    /\ sendCalls' = sendCalls + 1
    /\ sent' = IF socket # Null
               THEN Append(sent, [via |-> socket, text |-> JSONstringify(message)])
               ELSE sent
    /\ UNCHANGED <<mounted, inst, effectRuns, socket, isConnected, data, updates,
                   cleanupSocket, ws, inbox, timers, toasts, frameCount, arrived,
                   handled, attempt, pollVars>>

\* sendMessage(message): transmits on the stored socket when it is open, and
\* does nothing otherwise.
SendMessage(message) ==
    /\ mounted
    /\ sendCalls < MaxSends
    /\ sendCalls' = sendCalls + 1
    /\ sent' = IF socket # Null /\ ReadyState(ws[socket]) = "OPEN"
               THEN Append(sent, [via |-> socket, text |-> JSONstringify(message)])
               ELSE sent
    /\ UNCHANGED <<mounted, inst, effectRuns, socket, isConnected, data, updates,
                   cleanupSocket, ws, inbox, timers, toasts, frameCount, arrived,
                   handled, attempt, pollVars>>

\* subscribe(topic)
Subscribe(topic) == SendMessage(SubscribeMessage(topic))

RECURSIVE ApplyUpdates(_, _)
ApplyUpdates(prev, q) ==
    IF q = <<>> THEN prev ELSE ApplyUpdates(Merge(prev, Head(q)), Tail(q))

\* Dashboard's effect on wsData: the queries it refetches for the data of
\* the render it runs after.
DashboardRefetches(wsData) ==
    (IF wsData["type"] \in {Str("agent_execution_complete"), Str("agent_execution_error")}
     THEN {"agents", "metrics"} ELSE {})
    \cup (IF wsData["type"] \in {Str("new_alert"), Str("alert_dismissed")}
          THEN {"alerts"} ELSE {})

\* Render keeping only the updater queued last.
RenderLastOnly ==
    /\ mounted
    /\ updates # <<>>
    /\ data' = Merge(data, updates[Len(updates)])
    /\ updates' = <<>>
    /\ qRefetches' = [r \in DOMAIN qRefetches |->
                         IF r \in DashboardRefetches(data') THEN qRefetches[r] + 1
                         ELSE qRefetches[r]]
    /\ qFetching' = [r \in DOMAIN qFetching |->
                        qFetching[r] \/ r \in DashboardRefetches(data')]
    /\ UNCHANGED <<mounted, inst, effectRuns, socket, isConnected, cleanupSocket, ws,
                   inbox, timers, toasts, frameCount, arrived, handled, attempt,
                   sendVars, appVars, platVars, mcpVars,
                   qData, qLast>>

\* React renders: the queued setData updaters are applied in call order; the
\* Dashboard then runs its effect on the new wsData, and refetch() starts a
\* fetch unless one of the query is in flight.
Render ==
    /\ mounted
    /\ updates # <<>>
    /\ data' = ApplyUpdates(data, updates)
    /\ updates' = <<>>
    /\ qRefetches' = [r \in DOMAIN qRefetches |->
                         IF r \in DashboardRefetches(data') THEN qRefetches[r] + 1
                         ELSE qRefetches[r]]
    /\ qFetching' = [r \in DOMAIN qFetching |->
                        qFetching[r] \/ r \in DashboardRefetches(data')]
    /\ UNCHANGED <<mounted, inst, effectRuns, socket, isConnected, cleanupSocket, ws,
                   inbox, timers, toasts, frameCount, arrived, handled, attempt,
                   sendVars, appVars, platVars, mcpVars,
                   qData, qLast>>

(***************************************************************************)
(* BrainSaitApp: the metrics poller.                                       *)
(***************************************************************************)
CallIds == 0..MaxTicks      \* call 0 is the one made by loadInitialData

\* this.metrics = {} of the constructor.
EmptyMetrics == [k \in {} |-> 0]
PayloadA == [requests |-> 10, tools_executed |-> 1]
PayloadB == [requests |-> 12, tools_executed |-> 2]

\* Decoded response bodies of /api/metrics; Undecodable makes response.json() reject.
Undecodable == [undecodable |-> TRUE]
Bodies == {[metrics |-> PayloadA], [metrics |-> PayloadB], [status |-> "ok"]}

\* data.metrics || {}
StoredMetrics(body) ==
    IF "metrics" \in DOMAIN body THEN body.metrics ELSE EmptyMetrics

\* this.metrics.requests || 0, the target handed to animateCounter
ShownRequests(m) ==
    IF "requests" \in DOMAIN m THEN m.requests ELSE 0

\* updateConnectionStatus()
StatusText(connected) == IF connected THEN "Connected" ELSE "Disconnected"

FetchSite == 196   \* await fetch(...)
JsonSite  == 198   \* await response.json()

\* updateMetrics wrapping only the fetch in its try block.
UpdateMetricsTryFetchOnly == [from |-> 195, to |-> 196]

\* The try block of updateMetrics.  A call whose exception is not caught ends
\* in phase "rejected": the promise it returned rejects, unhandled by the
\* interval callback.
UpdateMetricsTry == [from |-> 195, to |-> 203]

InFlight == {i \in CallIds : calls[i].phase \in {"fetching", "decoding"}}

\* init() goes on to startRealTimeUpdates() once the initial load has settled.
StartRealTimeUpdates ==
    /\ ~pollStarted
    /\ calls[0].phase \notin {"fetching", "decoding"}
    /\ pollStarted' = TRUE
    /\ UNCHANGED <<metrics, appConnected, statusShown, displayed, calls, ticks, tornDown,
                   qVars, platVars, syncVars, mcpVars, wsVars>>

\* The 5-second interval fires: its callback calls updateMetrics(), which
\* issues the fetch whatever the state of earlier calls.
Tick ==
    /\ pollStarted
    /\ ticks < MaxTicks
    /\ ticks' = ticks + 1
    /\ calls' = [calls EXCEPT ![ticks + 1] = [phase |-> "fetching"]]
    /\ UNCHANGED <<metrics, appConnected, statusShown, displayed, pollStarted, tornDown,
                   qVars, platVars, syncVars, mcpVars, wsVars>>

\* fetch() rejects (network error): the catch block runs, then
\* updateConnectionStatus().
FetchRejects(i) ==
    /\ calls[i].phase = "fetching"
    /\ IF Caught(FetchSite, UpdateMetricsTry)
       THEN /\ calls' = [calls EXCEPT ![i] = [phase |-> "failed"]]
            /\ appConnected' = FALSE
            /\ statusShown' = StatusText(appConnected')
       ELSE /\ calls' = [calls EXCEPT ![i] = [phase |-> "rejected"]]
            /\ UNCHANGED <<appConnected, statusShown>>
    /\ UNCHANGED <<metrics, displayed, ticks, pollStarted, tornDown, qVars, platVars, syncVars, mcpVars, wsVars>>

\* fetch() resolves with a response that is not ok: the if is skipped, then
\* updateConnectionStatus().
FetchNotOk(i) ==
    /\ calls[i].phase = "fetching"
    /\ calls' = [calls EXCEPT ![i] = [phase |-> "notok"]]
    /\ statusShown' = StatusText(appConnected)
    /\ UNCHANGED <<metrics, appConnected, displayed, ticks, pollStarted, tornDown, qVars,
                   platVars, syncVars, mcpVars, wsVars>>

\* fetch() resolves with an ok response: updateMetrics awaits response.json().
FetchOk(i, body) ==
    /\ calls[i].phase = "fetching"
    /\ calls' = [calls EXCEPT ![i] = [phase |-> "decoding", body |-> body]]
    /\ UNCHANGED <<metrics, appConnected, statusShown, displayed, ticks, pollStarted,
                   tornDown, qVars, platVars, syncVars, mcpVars, wsVars>>

\* response.json() rejects: the catch block runs, then updateConnectionStatus().
JsonRejects(i) ==
    /\ calls[i].phase = "decoding"
    /\ calls[i].body = Undecodable
    /\ IF Caught(JsonSite, UpdateMetricsTry)
       THEN /\ calls' = [calls EXCEPT ![i] = [phase |-> "failed"]]
            /\ appConnected' = FALSE
            /\ statusShown' = StatusText(appConnected')
       ELSE /\ calls' = [calls EXCEPT ![i] = [phase |-> "rejected"]]
            /\ UNCHANGED <<appConnected, statusShown>>
    /\ UNCHANGED <<metrics, displayed, ticks, pollStarted, tornDown, qVars, platVars, syncVars, mcpVars, wsVars>>

\* response.json() resolves: the payload is stored and displayed, the flag
\* set, then updateConnectionStatus().
JsonResolves(i) ==
    /\ calls[i].phase = "decoding"
    /\ calls[i].body # Undecodable
    /\ calls' = [calls EXCEPT ![i] = [phase |-> "ok", body |-> calls[i].body]]
    /\ metrics' = StoredMetrics(calls[i].body)
    /\ displayed' = ShownRequests(metrics')
    /\ appConnected' = TRUE
    /\ statusShown' = StatusText(appConnected')
    /\ UNCHANGED <<ticks, pollStarted, tornDown, qVars, platVars, syncVars, mcpVars, wsVars>>

\* The host ends the dashboard session.  BrainSaitApp registers nothing for
\* it: the interval ids are discarded by startRealTimeUpdates and
\* updateMetrics consults no flag.
EndSession ==
    /\ ~tornDown
    /\ tornDown' = TRUE
    /\ UNCHANGED <<metrics, appConnected, statusShown, displayed, calls, ticks,
                   pollStarted, qVars, platVars, syncVars, mcpVars, wsVars>>

NextPoll ==
    \/ StartRealTimeUpdates
    \/ Tick
    \/ \E i \in CallIds : FetchRejects(i)
    \/ \E i \in CallIds : FetchNotOk(i)
    \/ \E i \in CallIds, body \in Bodies \cup {Undecodable} : FetchOk(i, body)
    \/ \E i \in CallIds : JsonRejects(i)
    \/ \E i \in CallIds : JsonResolves(i)
    \/ EndSession

(***************************************************************************)
(* Dashboard: the useQuery pollers.  useQuery keeps one fetcher call in     *)
(* flight per query, stores what the fetcher resolves to as the query's    *)
(* data and keeps the previous data when the fetcher rejects.              *)
(***************************************************************************)
Resources == {"agents", "metrics", "alerts"}
NoData    == [nodata |-> TRUE]
ErrorBody == [detail |-> "Internal Server Error"]
ListBodies == {[items |-> "v1"], [items |-> "v2"]}

\* fetchAgents / fetchMetrics / fetchAlerts: `return response.json()` for
\* any response, whatever its status.
FetcherResult(httpOk, body) ==
    IF body = Undecodable
    THEN [settled |-> "rejected"]
    ELSE [settled |-> "resolved", value |-> body]

\* refetchInterval elapses (or refetch() is called) for query r.
QueryFetch(r) ==
    /\ ~qFetching[r]
    /\ qFetching' = [qFetching EXCEPT ![r] = TRUE]
    /\ UNCHANGED <<qData, qLast, qRefetches, appVars, platVars, mcpVars, wsVars>>

\* fetch() of query r rejects: the fetcher rejects.
QueryNetworkError(r) ==
    /\ qFetching[r]
    /\ qFetching' = [qFetching EXCEPT ![r] = FALSE]
    /\ qLast' = [qLast EXCEPT ![r] = "network error"]
    /\ UNCHANGED <<qData, qRefetches, appVars, platVars, mcpVars, wsVars>>

\* fetch() of query r resolves with a response.
QueryResponse(r, httpOk, body) ==
    /\ qFetching[r]
    /\ qFetching' = [qFetching EXCEPT ![r] = FALSE]
    /\ LET res == FetcherResult(httpOk, body) IN
         /\ qData' = IF res.settled = "resolved"
                     THEN [qData EXCEPT ![r] = res.value] ELSE qData
         /\ qLast' = [qLast EXCEPT ![r] =
                         IF ~httpOk THEN "not ok"
                         ELSE IF body = Undecodable THEN "undecodable" ELSE "ok"]
    /\ UNCHANGED <<qRefetches, appVars, platVars, mcpVars, wsVars>>

NextQuery ==
    \/ \E r \in Resources : QueryFetch(r)
    \/ \E r \in Resources : QueryNetworkError(r)
    \/ \E r \in Resources, body \in ListBodies \cup {Undecodable} :
          QueryResponse(r, TRUE, body)
    \/ \E r \in Resources, body \in {ErrorBody, Undecodable} :
          QueryResponse(r, FALSE, body)

(***************************************************************************)
(* BrainSaitApp.syncContent: the content sync behind the sync button and    *)
(* the global entry points syncContent() and quickSync().                   *)
(***************************************************************************)
SyncIds == 1..MaxSyncs

\* innerHTML of #syncBtn as the page is loaded, and as set on line 414.
IdleLabel    == "Sync Content"
SyncingLabel == "<i class=\"fas fa-spinner fa-spin\"></i> Syncing..."

NoSync == [phase |-> "none", originalText |-> ""]

\* The finally block of invocation i: the label read at its start is written
\* back and the button enabled.
SyncFinally(i, outcome) ==
    /\ syncBtn' = [innerHTML |-> syncCalls[i].originalText, disabled |-> FALSE]
    /\ syncCalls' = [syncCalls EXCEPT ![i].phase = outcome]

\* syncContent() is entered through any of its entry points: the current
\* label is remembered, the button shows the spinner and is disabled, and the
\* fetch is issued.  The entry points other than the button itself do not
\* consult the button.
SyncContent ==
    /\ \E i \in SyncIds :
          /\ syncCalls[i].phase = "none"
          /\ \A j \in SyncIds : j < i => syncCalls[j].phase # "none"
          /\ syncCalls' = [syncCalls EXCEPT ![i] =
                              [phase |-> "fetching", originalText |-> syncBtn.innerHTML]]
    /\ syncBtn' = [innerHTML |-> SyncingLabel, disabled |-> TRUE]
    /\ UNCHANGED <<metrics, appConnected, statusShown, displayed, calls, ticks,
                   pollStarted, tornDown, qVars, platVars, mcpVars, wsVars>>

\* The fetch of invocation i rejects: catch, then finally.
SyncFetchRejects(i) ==
    /\ syncCalls[i].phase = "fetching"
    /\ SyncFinally(i, "network error")
    /\ UNCHANGED <<metrics, appConnected, statusShown, displayed, calls, ticks,
                   pollStarted, tornDown, qVars, platVars, mcpVars, wsVars>>

\* The fetch of invocation i resolves: response.json() is awaited.
SyncFetchResolves(i) ==
    /\ syncCalls[i].phase = "fetching"
    /\ syncCalls' = [syncCalls EXCEPT ![i].phase = "decoding"]
    /\ UNCHANGED <<syncBtn, metrics, appConnected, statusShown, displayed, calls, ticks,
                   pollStarted, tornDown, qVars, platVars, mcpVars, wsVars>>

\* response.json() rejects: catch, then finally.
SyncJsonRejects(i) ==
    /\ syncCalls[i].phase = "decoding"
    /\ SyncFinally(i, "undecodable")
    /\ UNCHANGED <<metrics, appConnected, statusShown, displayed, calls, ticks,
                   pollStarted, tornDown, qVars, platVars, mcpVars, wsVars>>

\* response.json() resolves with a result that reports a failure: finally.
SyncReportedFailure(i) ==
    /\ syncCalls[i].phase = "decoding"
    /\ SyncFinally(i, "failed")
    /\ UNCHANGED <<metrics, appConnected, statusShown, displayed, calls, ticks,
                   pollStarted, tornDown, qVars, platVars, mcpVars, wsVars>>

\* response.json() resolves with status 'success': loadSyncedContent() is
\* awaited.
SyncSucceeds(i) ==
    /\ syncCalls[i].phase = "decoding"
    /\ syncCalls' = [syncCalls EXCEPT ![i].phase = "loading"]
    /\ UNCHANGED <<syncBtn, metrics, appConnected, statusShown, displayed, calls, ticks,
                   pollStarted, tornDown, qVars, platVars, mcpVars, wsVars>>

\* loadSyncedContent() settles: finally.
SyncLoaded(i) ==
    /\ syncCalls[i].phase = "loading"
    /\ SyncFinally(i, "success")
    /\ UNCHANGED <<metrics, appConnected, statusShown, displayed, calls, ticks,
                   pollStarted, tornDown, qVars, platVars, mcpVars, wsVars>>

NextSync ==
    \/ SyncContent
    \/ \E i \in SyncIds : SyncFetchRejects(i)
    \/ \E i \in SyncIds : SyncFetchResolves(i)
    \/ \E i \in SyncIds : SyncJsonRejects(i)
    \/ \E i \in SyncIds : SyncReportedFailure(i)
    \/ \E i \in SyncIds : SyncSucceeds(i)
    \/ \E i \in SyncIds : SyncLoaded(i)

(***************************************************************************)
(* BrainSaitPlatform (landing page): one updateMetrics call fetches        *)
(* /api/metrics, /api/tools and /api/agents in sequence inside a single    *)
(* try block.                                                              *)
(***************************************************************************)
PlatCallIds == 0..MaxPlatTicks

\* The three requests of updateMetrics, in program order.
PlatOrder == <<"metrics", "tools", "agents">>

PlatResources == {PlatOrder[n] : n \in 1..Len(PlatOrder)}

\* The counter a decoded body carries (metrics.metrics.tools_executed,
\* tools.total, agents.total); 0 also stands for a body without the field.
PlatBodies == {0, 3}

\* The text written by updateDashboardMetrics / updateToolsMetrics /
\* updateAgentsMetrics: `x || 0`, and `tools.total || 8` for the tools.
PlatShownValue(r, n) ==
    IF n # 0 THEN n ELSE IF r = "tools" THEN 8 ELSE 0

\* error is the message the catch block logs ("none": nothing logged).
PlatIdle == [phase |-> "none", step |-> 0, started |-> {}, error |-> "none"]

\* The call moves on past request number n: the next fetch is issued, or
\* the try block ends.
PlatAdvance(c, n) ==
    IF n < Len(PlatOrder)
    THEN [phase |-> "fetching", step |-> n + 1,
          started |-> c.started \cup {PlatOrder[n + 1]}, error |-> "none"]
    ELSE [phase |-> "done", step |-> n, started |-> c.started, error |-> "none"]

\* updateMetrics() is entered: the first fetch is issued.
PlatStart == PlatAdvance(PlatIdle, 0)

\* The interval installed by startRealTimeUpdates fires.
PlatTick ==
    /\ platTicks < MaxPlatTicks
    /\ platTicks' = platTicks + 1
    /\ platCalls' = [platCalls EXCEPT ![platTicks + 1] = PlatStart]
    /\ UNCHANGED <<platShown, appVars, qVars, mcpVars, wsVars>>

\* The awaited fetch rejects: control jumps to the catch block, which logs;
\* the remaining requests of this call are never issued.
PlatFetchRejects(i) ==
    /\ platCalls[i].phase = "fetching"
    /\ platCalls' = [platCalls EXCEPT ![i].phase = "failed", ![i].error = "Failed to fetch"]
    /\ UNCHANGED <<platTicks, platShown, appVars, qVars, mcpVars, wsVars>>

\* The awaited fetch resolves with a response that is not ok: the if is
\* skipped and the call moves on.
PlatFetchNotOk(i) ==
    /\ platCalls[i].phase = "fetching"
    /\ platCalls' = [platCalls EXCEPT ![i] = PlatAdvance(@, @.step)]
    /\ UNCHANGED <<platTicks, platShown, appVars, qVars, mcpVars, wsVars>>

\* The awaited fetch resolves with an ok response: response.json() is awaited.
PlatFetchOk(i) ==
    /\ platCalls[i].phase = "fetching"
    /\ platCalls' = [platCalls EXCEPT ![i].phase = "decoding"]
    /\ UNCHANGED <<platTicks, platShown, appVars, qVars, mcpVars, wsVars>>

\* response.json() rejects: control jumps to the catch block.
PlatJsonRejects(i) ==
    /\ platCalls[i].phase = "decoding"
    /\ platCalls' = [platCalls EXCEPT ![i].phase = "failed", ![i].error = "Unexpected token"]
    /\ UNCHANGED <<platTicks, platShown, appVars, qVars, mcpVars, wsVars>>

\* response.json() resolves: the counter is written and the call moves on.
PlatJsonResolves(i, n) ==
    /\ platCalls[i].phase = "decoding"
    /\ platShown' = [platShown EXCEPT ![PlatOrder[platCalls[i].step]] =
                        <<PlatShownValue(PlatOrder[platCalls[i].step], n)>>]
    /\ platCalls' = [platCalls EXCEPT ![i] = PlatAdvance(@, @.step)]
    /\ UNCHANGED <<platTicks, appVars, qVars, mcpVars, wsVars>>

NextPlatform ==
    \/ PlatTick
    \/ \E i \in PlatCallIds : PlatFetchRejects(i)
    \/ \E i \in PlatCallIds : PlatFetchNotOk(i)
    \/ \E i \in PlatCallIds : PlatFetchOk(i)
    \/ \E i \in PlatCallIds : PlatJsonRejects(i)
    \/ \E i \in PlatCallIds, n \in PlatBodies : PlatJsonResolves(i, n)

(***************************************************************************)
(* The filesystem MCP server: wss.on('connection') / ws.on('message').      *)
(***************************************************************************)
ReqIds == 1..MaxReqs      \* the n-th message carries JSON-RPC id n
Conns  == {1, 2}          \* the connections, each with its own `ws`

\* The names the switch of tools/call knows.
McpTools == {"read_file", "write_file", "list_directory"}

\* The inbound messages: what JSON.parse makes of them.  method "" with
\* json FALSE is a text that is not JSON.
McpMessages ==
    { [json |-> TRUE,  method |-> "initialize", tool |-> ""],
      [json |-> TRUE,  method |-> "tools/list", tool |-> ""],
      [json |-> TRUE,  method |-> "tools/call", tool |-> "read_file"],
      [json |-> TRUE,  method |-> "tools/call", tool |-> "delete_file"],
      [json |-> TRUE,  method |-> "ping",       tool |-> ""],
      [json |-> FALSE, method |-> "",           tool |-> ""] }

NoReq == [phase |-> "none", conn |-> 0, msg |-> [json |-> FALSE, method |-> "", tool |-> ""]]

\* Scope of `const request`: declared on line 101 in the try block of lines
\* 100-150, it is visible to a statement exactly when the statement lies in
\* that block.
RequestDecl  == [from |-> 100, to |-> 150]
CatchUseSite == 153       \* `id: request.id` in the catch block

InScope(site, block) == block.from <= site /\ site <= block.to

ResultResponse(conn, id, what) ==
    [conn |-> conn, id |-> id, kind |-> "result", what |-> what, code |-> 0]
ErrorResponse(conn, id) ==
    [conn |-> conn, id |-> id, kind |-> "error", what |-> "", code |-> -1]

\* An exception leaves the async handler of message n: its promise rejects
\* with nobody handling it, and node either warns and goes on or ends the
\* process, depending on its version and flags.  Nothing is sent.
McpUnhandled(n, reqs) ==
    /\ mcpOut' = mcpOut
    /\ mcpReqs' = [reqs EXCEPT ![n].phase = "failed"]
    /\ mcpAlive' \in BOOLEAN

\* The catch block of the handler of message n, entered with a parsed
\* request: it sends the error response when `request` resolves there;
\* otherwise evaluating request.id throws a ReferenceError out of the handler.
McpCatch(n, reqs) ==
    IF InScope(CatchUseSite, RequestDecl)
    THEN /\ mcpOut' = Append(mcpOut, ErrorResponse(reqs[n].conn, n))
         /\ mcpReqs' = [reqs EXCEPT ![n].phase = "failed"]
         /\ UNCHANGED mcpAlive
    ELSE McpUnhandled(n, reqs)

\* A message arrives on connection c as the n-th message: the handler runs up
\* to its first await.
McpReceive(n, c, msg) ==
    /\ mcpAlive
    /\ mcpReqs[n].phase = "none"
    /\ \A j \in ReqIds : j < n => mcpReqs[j].phase # "none"
    /\ LET reqs == [mcpReqs EXCEPT ![n] = [phase |-> "handling", conn |-> c, msg |-> msg]] IN
       CASE ~msg.json ->
               \* JSON.parse throws: `request` has no value in the catch block
               \* wherever it is declared, so request.id throws there
               McpUnhandled(n, reqs)
         [] msg.json /\ msg.method = "initialize" ->
               /\ mcpOut' = Append(mcpOut, ResultResponse(c, n, "serverInfo"))
               /\ mcpReqs' = [reqs EXCEPT ![n].phase = "done"]
               /\ UNCHANGED mcpAlive
         [] msg.json /\ msg.method = "tools/list" ->
               /\ mcpOut' = Append(mcpOut, ResultResponse(c, n, "tools"))
               /\ mcpReqs' = [reqs EXCEPT ![n].phase = "done"]
               /\ UNCHANGED mcpAlive
         [] msg.json /\ msg.method = "tools/call" /\ msg.tool \in McpTools ->
               \* await fs.readFile / writeFile / readdir
               /\ mcpReqs' = [reqs EXCEPT ![n].phase = "awaiting"]
               /\ UNCHANGED <<mcpOut, mcpAlive>>
         [] msg.json /\ msg.method = "tools/call" /\ msg.tool \notin McpTools ->
               \* default: throw new Error(`Unknown tool: ...`)
               McpCatch(n, reqs)
         [] OTHER ->
               \* no branch of the if chain matches
               /\ mcpReqs' = [reqs EXCEPT ![n].phase = "done"]
               /\ UNCHANGED <<mcpOut, mcpAlive>>
    /\ UNCHANGED <<appVars, qVars, platVars, wsVars>>

\* The awaited filesystem call of message n resolves and the result is sent
\* with the id of the latest message received.
McpFsResolvesLatestId(n) ==
    /\ mcpAlive
    /\ mcpReqs[n].phase = "awaiting"
    /\ mcpOut' = Append(mcpOut,
                        ResultResponse(mcpReqs[n].conn,
                                       CHOOSE j \in ReqIds :
                                          /\ mcpReqs[j].phase # "none"
                                          /\ \A k \in ReqIds : mcpReqs[k].phase # "none" => k <= j,
                                       "content"))
    /\ mcpReqs' = [mcpReqs EXCEPT ![n].phase = "done"]
    /\ UNCHANGED <<mcpAlive, appVars, qVars, platVars, wsVars>>

\* The awaited filesystem call of message n resolves: the result is sent on
\* the handler's own ws with the handler's own request.id.
McpFsResolves(n) ==
    /\ mcpAlive
    /\ mcpReqs[n].phase = "awaiting"
    /\ mcpOut' = Append(mcpOut, ResultResponse(mcpReqs[n].conn, n, "content"))
    /\ mcpReqs' = [mcpReqs EXCEPT ![n].phase = "done"]
    /\ UNCHANGED <<mcpAlive, appVars, qVars, platVars, wsVars>>

\* The awaited filesystem call of message n rejects (ENOENT, EACCES, ...).
McpFsRejects(n) ==
    /\ mcpAlive
    /\ mcpReqs[n].phase = "awaiting"
    /\ McpCatch(n, mcpReqs)
    /\ UNCHANGED <<appVars, qVars, platVars, wsVars>>

NextMcp ==
    \/ \E n \in ReqIds, c \in Conns, msg \in McpMessages : McpReceive(n, c, msg)
    \/ \E n \in ReqIds : McpFsResolves(n)
    \/ \E n \in ReqIds : McpFsRejects(n)

Init ==
    /\ mounted = FALSE
    /\ inst = 0
    /\ effectRuns = 0
    /\ socket = Null
    /\ isConnected = FALSE
    /\ data = EmptyObj
    /\ updates = <<>>
    /\ cleanupSocket = Null
    /\ ws = [s \in Slots |-> FreeWs]
    /\ inbox = [s \in Slots |-> <<>>]
    /\ timers = [k \in TimerKinds |-> 0]
    /\ toasts = {}
    /\ frameCount = 0
    /\ arrived = [s \in Slots |-> <<>>]
    /\ handled = [s \in Slots |-> <<>>]
    /\ attempt = FALSE
    /\ sent = <<>>
    /\ sendCalls = 0
    /\ metrics = EmptyMetrics
    /\ appConnected = FALSE
    /\ statusShown = "none"
    /\ displayed = 0
    /\ calls = [i \in CallIds |-> IF i = 0 THEN [phase |-> "fetching"] ELSE [phase |-> "none"]]
    /\ ticks = 0
    /\ pollStarted = FALSE
    /\ tornDown = FALSE
    /\ syncBtn = [innerHTML |-> IdleLabel, disabled |-> FALSE]
    /\ syncCalls = [i \in SyncIds |-> NoSync]
    /\ qData = [r \in Resources |-> NoData]
    /\ qFetching = [r \in Resources |-> TRUE]
    /\ qLast = [r \in Resources |-> "none"]
    /\ qRefetches = [r \in Resources |-> 0]
    /\ platCalls = [i \in PlatCallIds |-> IF i = 0 THEN PlatStart ELSE PlatIdle]
    /\ platTicks = 0
    /\ platShown = [r \in PlatResources |-> <<>>]
    /\ mcpReqs = [n \in ReqIds |-> NoReq]
    /\ mcpOut = <<>>
    /\ mcpAlive = TRUE

Next ==
    \/ Mount
    \/ MountStrict
    \/ Teardown
    \/ \E s \in Slots : Open(s)
    \/ \E s \in Slots : Error(s)
    \/ \E s \in Slots : Close(s)
    \/ \E k \in TimerKinds : TimerFire(k)
    \/ \E s \in Slots, raw \in RawFrames : Deliver(s, raw)
    \/ \E s \in Slots : OnMessage(s)
    \/ Render

Spec == Init /\ [][Next]_vars

\* The connection lifecycle alone: no frames are delivered.
NextLife ==
    \/ Mount
    \/ MountStrict
    \/ Teardown
    \/ \E s \in Slots : Open(s)
    \/ \E s \in Slots : Error(s)
    \/ \E s \in Slots : Close(s)
    \/ \E k \in TimerKinds : TimerFire(k)

SpecLife == Init /\ [][NextLife]_vars

\* Timers expire: a pending setTimeout callback eventually runs.
FairLife ==
    /\ SpecLife
    /\ \A k \in TimerKinds : WF_vars(TimerFire(k))

\* One provider instance, mounted once and kept mounted, receiving frames
\* across its connections.
NextFrames ==
    \/ Mount
    \/ \E s \in Slots : Open(s)
    \/ \E s \in Slots : Error(s)
    \/ \E s \in Slots : Close(s)
    \/ \E k \in TimerKinds : TimerFire(k)
    \/ \E s \in Slots, raw \in RawFrames : Deliver(s, raw)
    \/ \E s \in Slots : OnMessage(s)
    \/ Render

SpecFrames == Init /\ [][NextFrames]_vars

\* One provider, its chain of connections, and consumers that send.
NextSend ==
    \/ Mount
    \/ \E s \in Slots : Open(s)
    \/ \E s \in Slots : Error(s)
    \/ \E s \in Slots : Close(s)
    \/ \E k \in TimerKinds : TimerFire(k)
    \/ \E message \in DirectMessages : SendMessage(message)
    \/ \E topic \in Topics : Subscribe(topic)

SpecSend == Init /\ [][NextSend]_vars

(***************************************************************************)
(* Properties.                                                             *)
(***************************************************************************)
Active(o)   == {s \in Slots : ws[s].owner = o /\ ws[s].st \in {"connecting", "open"}}
TimersOf(o) == timers[[delay |-> ReconnectDelay, owner |-> o]]
               + timers[[delay |-> ConstructRetryDelay, owner |-> o]]
RECURSIVE SumTimers(_)
SumTimers(os) ==
    IF os = {} THEN 0
    ELSE LET o == CHOOSE x \in os : TRUE IN TimersOf(o) + SumTimers(os \ {o})
PendingTimers == SumTimers(Insts)

\* C1: after the provider's teardown, and for as long as it stays unmounted,
\* connect is not invoked again and no reconnect is scheduled.
C1_NoConnectAfterDisconnect ==
    [][(~mounted /\ ~mounted') =>
          (attempt' = attempt /\ \A k \in TimerKinds : timers'[k] <= timers[k])]_vars

\* C2: connect() is idempotent: while an instance has a transport connecting
\* or open, no step constructs a further transport for it.
C2_ConnectIdempotent ==
    [][\A o \in Insts : Active(o) # {} =>
          {s \in Slots : ws'[s].owner = o /\ ws'[s].st = "connecting"} \subseteq Active(o)]_vars

\* C3: an instance has at most one transport connecting or open and at most
\* one reconnect timer pending.
C3_OneAttemptOneTimer ==
    \A o \in Insts : Cardinality(Active(o)) <= 1 /\ TimersOf(o) <= 1

\* C4: at most one fetch of the metrics resource is in flight.
C4_OneFetchInFlight ==
    Cardinality(InFlight) <= 1

\* C5: a fetch of a resource that fails (network error, non-OK response or
\* undecodable body) leaves the resource's stored payload unchanged.
C5_FailureKeepsPayload ==
    [][\A r \in Resources :
          (qData[r] \in ListBodies /\ qFetching[r] /\ ~qFetching'[r]
           /\ qLast'[r] \in {"network error", "not ok", "undecodable"})
          => qData'[r] = qData[r]]_vars

OkCalls == {i \in CallIds : calls[i].phase = "ok"}
LatestOk == CHOOSE i \in OkCalls : \A j \in OkCalls : j <= i

\* C6: once every fetch has completed, the stored payload is the result of
\* the most recent tick that succeeded.
C6_LatestSuccessStored ==
    (InFlight = {} /\ OkCalls # {}) => metrics = StoredMetrics(calls[LatestOk].body)

\* C7: after the session has been torn down no fetch that resolves changes
\* the stored payload.
C7_NoMutationAfterTeardown ==
    [][tornDown => metrics' = metrics]_vars

\* C8: after teardown no WebSocket of the torn-down session is connecting or
\* open.
C8_ClosedAfterTeardown ==
    (~mounted /\ inst > 0) => Active(inst) = {}

Chains == Cardinality({s \in Slots : ws[s].st # "free"}) + PendingTimers

\* C9: every connection chain started by an effect run stays alive: it is
\* always a transport or a pending reconnect timer (a close or a failed
\* construction always leaves a timer, with no retry limit), and a pending
\* timer always leads to a further connect() call.
C9_ReconnectsForever ==
    /\ [](Chains = effectRuns)
    /\ \A a \in BOOLEAN : (PendingTimers > 0 /\ attempt = a) ~> (attempt # a)

\* A provider mounted once has connected, lost the connection, connected
\* again, lost it again and waits for the next reconnect.
C9_Witness ==
    /\ effectRuns = 1
    /\ attempt = FALSE
    /\ timers[[delay |-> ReconnectDelay, owner |-> 1]] = 1

FramesOf(h) == [i \in 1..Len(h) |-> h[i].frame]

RECURSIVE MergeAll(_, _)
MergeAll(prev, h) ==
    IF h = <<>> THEN prev
    ELSE MergeAll(IF JSONparse(Head(h).frame).ok
                  THEN Merge(prev, JSONparse(Head(h).frame).obj) ELSE prev, Tail(h))

\* C10: the frame handler runs once per frame in arrival order: the frames
\* handled so far followed by those still queued are the frames that arrived,
\* each run raised the notifications of its own frame, and the shared data is
\* the result of merging the parsed frames in that order.
C10_ArrivalOrder ==
    /\ \A s \in Slots :
          /\ arrived[s] = FramesOf(handled[s]) \o inbox[s]
          /\ \A i \in 1..Len(handled[s]) :
                handled[s][i].out = HandleFrame(arrived[s][i]).out
    /\ mounted => ApplyUpdates(data, updates) = MergeAll(EmptyObj, handled[1])

\* Two different frames whose merge order matters have both been handled.
C10_Witness ==
    /\ Len(handled[1]) = 2
    /\ handled[1][1].frame = "{\"type\":\"new_alert\",\"alert\":{\"type\":\"critical\",\"title\":\"X\"}}"
    /\ handled[1][2].frame = "{\"type\":\"agent_execution_complete\",\"agent_id\":\"a1\"}"
    /\ updates = <<>>


\* The alert frames of RawFrames: text, alert.type and alert.title.
AlertFrames ==
    { [frame |-> "{\"type\":\"new_alert\",\"alert\":{\"type\":\"critical\",\"title\":\"X\"}}",
       atype |-> "critical", title |-> "X"],
      [frame |-> "{\"type\":\"new_alert\",\"alert\":{\"type\":\"warning\",\"title\":\"W\"}}",
       atype |-> "warning", title |-> "W"],
      [frame |-> "{\"type\":\"new_alert\",\"alert\":{\"type\":\"info\",\"title\":\"I\"}}",
       atype |-> "info", title |-> "I"] }

\* The toast kind the claim fixes for an alert.type.
SeverityOf(atype) ==
    CASE atype = "critical" -> "error"
      [] atype = "warning"  -> "warning"
      [] OTHER              -> "success"

\* Slot s handles a frame in this step.
Handles(s) == Len(handled'[s]) = Len(handled[s]) + 1

\* C11: a new_alert frame carrying an alert object raises exactly one
\* notification, titled alert.title, of the severity fixed by alert.type, and
\* handling it changes neither the connection state nor any socket.
C11_AlertNotification ==
    /\ [](\A s \in Slots : \A i \in 1..Len(handled[s]) : \A a \in AlertFrames :
            handled[s][i].frame = a.frame =>
               handled[s][i].out = <<[level |-> SeverityOf(a.atype), text |-> <<a.title>>]>>)
    /\ [][\A s \in Slots :
            (Handles(s) /\ \E a \in AlertFrames : Head(inbox[s]) = a.frame)
            => (isConnected' = isConnected /\ socket' = socket /\ ws' = ws
                /\ timers' = timers)]_vars

\* A warning alert and a critical alert have both been handled.
C11_Witness ==
    \E i, j \in 1..Len(handled[1]) :
       /\ handled[1][i].frame = "{\"type\":\"new_alert\",\"alert\":{\"type\":\"warning\",\"title\":\"W\"}}"
       /\ handled[1][j].frame = "{\"type\":\"new_alert\",\"alert\":{\"type\":\"critical\",\"title\":\"X\"}}"
       /\ isConnected

\* C12: a disconnect issued while a reconnect timer is pending cancels the
\* timer: the teardown step leaves no timer pending, and no connect is invoked
\* while the provider stays unmounted.
C12_DisconnectCancelsTimer ==
    [][/\ (mounted /\ ~mounted' /\ PendingTimers > 0)
            => (\A k \in TimerKinds : timers'[k] = 0)
       /\ (~mounted /\ ~mounted') => (attempt' = attempt /\ ~isConnected')]_vars


\* C13: a failed fetch of one resource never keeps another resource's fetch
\* of the same tick from being issued: every updateMetrics call that has ended
\* issued all of its requests.
C13_FailureIsolated ==
    \A i \in PlatCallIds :
       platCalls[i].phase \in {"done", "failed"} => platCalls[i].started = PlatResources

SpecPlatform == Init /\ [][NextPlatform]_vars

\* The frame of RawFrames that is not JSON.
NotJson == "not json"

\* C14: a frame that is not JSON is dropped: no notification, no change of
\* data or of the connection state, the socket is not closed, and frames that
\* arrive after it are handled as usual.
C14_NonJsonDropped ==
    /\ [](\A s \in Slots : \A i \in 1..Len(handled[s]) :
            IF handled[s][i].frame = NotJson
            THEN ~handled[s][i].merged /\ handled[s][i].out = <<>>
            ELSE handled[s][i].merged)
    /\ [][\A s \in Slots :
            (Handles(s) /\ Head(inbox[s]) = NotJson)
            => (/\ data' = data /\ updates' = updates /\ toasts' = toasts
                /\ isConnected' = isConnected /\ socket' = socket
                /\ ws' = ws /\ timers' = timers
                /\ inbox'[s] = Tail(inbox[s]))]_vars
    /\ [][\A s \in Slots :
            (/\ Handles(s) /\ Head(inbox[s]) # NotJson /\ Alive(ws[s].owner)
             /\ \E i \in 1..Len(handled[s]) : handled[s][i].frame = NotJson)
            => (/\ Len(updates') = Len(updates) + 1
                /\ updates'[Len(updates')]["type"] # Undef)]_vars

\* A frame that is not JSON was handled, then a well-formed frame after it
\* on the same, still open, socket.
C14_Witness ==
    /\ Len(handled[1]) = 2
    /\ handled[1][1].frame = NotJson
    /\ handled[1][2].merged
    /\ ws[1].st = "open"
    /\ Len(updates) = 1

\* C15: a frame that parses as JSON but is malformed for its kind (a
\* new_alert without an alert object) is dropped as a whole: it raises
\* nothing and no field of it ever reaches the shared data.
C15_MalformedDropped ==
    /\ \A s \in Slots : \A i \in 1..Len(handled[s]) :
          (JSONparse(handled[s][i].frame).ok
           /\ MessageToasts(JSONparse(handled[s][i].frame).obj).threw)
          => (~handled[s][i].merged /\ handled[s][i].out = <<>>)
    /\ (data["type"] = Str("new_alert") => data["alert"] # Undef)

\* C16: when an updateMetrics call completes, the connection flag reflects
\* its outcome: cleared by any failure (fetch rejected, response not ok, body
\* undecodable), set by a success.
C16_FlagReflectsOutcome ==
    [][\A i \in CallIds :
         (calls[i].phase \in {"fetching", "decoding"}
          /\ calls'[i].phase \in {"ok", "failed", "notok"})
         => (appConnected' = (calls'[i].phase = "ok")
             /\ statusShown' = StatusText(calls'[i].phase = "ok"))]_vars

Closes(s) == ws[s].st # "free" /\ ws'[s].st = "free"

C18_OnlyLatestEvent ==
    \A s \in Slots :
       (/\ mounted /\ updates = <<>> /\ socket = s
        /\ handled[s] # <<>> /\ handled[s][Len(handled[s])].merged)
       => data = JSONparse(handled[s][Len(handled[s])].frame).obj

\* The messages of the handled frames h that were passed to setData.
MergedMessages(h) ==
    LET RECURSIVE Go(_)
        Go(q) == IF q = <<>> THEN <<>>
                 ELSE IF Head(q).merged
                      THEN <<JSONparse(Head(q).frame).obj>> \o Go(Tail(q))
                      ELSE Go(Tail(q))
    IN Go(h)

\* C19: every handled frame is applied atomically and exactly once: the data
\* a consumer sees is always the merge of a whole prefix of the handled
\* frames, and the frames after that prefix are exactly the updates still
\* queued, each once and in order, so none is lost before the next render.
C19_WholePrefixApplied ==
    \E n \in 0..Len(handled[1]) :
       /\ data = MergeAll(EmptyObj, SubSeq(handled[1], 1, n))
       /\ updates = MergedMessages(SubSeq(handled[1], n + 1, Len(handled[1])))

\* Two frames were handled before a render and both are queued.
C19_Witness ==
    /\ Len(updates) = 2
    /\ updates[1] # updates[2]
    /\ data = EmptyObj

\* The frame of RawFrames whose type the handler does not know, and the
\* payload it carries.
GenericFrame == "{\"type\":\"metrics_update\",\"cpu\":\"42\"}"

GenericPayload ==
    [k \in Keys |-> CASE k = "type" -> [t |-> "str", s |-> "metrics_update"]
                      [] k = "cpu"  -> [t |-> "str", s |-> "42"]
                      [] OTHER      -> [t |-> "undef"]]

\* C20: a frame of a type the handler does not know is handled as a generic
\* event: its payload is passed unchanged to the merge, no notification is
\* raised and the connection state is untouched.
C20_UnknownTypeGeneric ==
    /\ [](\A s \in Slots : \A i \in 1..Len(handled[s]) :
            handled[s][i].frame = GenericFrame
            => (handled[s][i].merged /\ handled[s][i].out = <<>>))
    /\ [][\A s \in Slots :
            (Handles(s) /\ Head(inbox[s]) = GenericFrame)
            => (/\ toasts' = toasts
                /\ isConnected' = isConnected /\ socket' = socket
                /\ ws' = ws /\ timers' = timers
                /\ Alive(ws[s].owner) => updates' = Append(updates, GenericPayload))]_vars
    /\ [][(updates # <<>> /\ updates' = <<>> /\ mounted'
           /\ updates[Len(updates)] = GenericPayload)
          => (data'["type"] = GenericPayload["type"]
              /\ data'["cpu"] = GenericPayload["cpu"]
              /\ \A k \in Keys \ {"type", "cpu"} :
                    data'[k] = ApplyUpdates(data, SubSeq(updates, 1, Len(updates) - 1))[k])]_vars

\* A frame of unknown type has been handled and rendered while connected.
C20_Witness ==
    /\ \E i \in 1..Len(handled[1]) : handled[1][i].frame = GenericFrame
    /\ data["cpu"] = [t |-> "str", s |-> "42"]
    /\ isConnected
    /\ updates = <<>>

\* C21: while the provider is mounted, isConnected is true exactly when a
\* socket is stored, the stored socket is one of this provider that has opened
\* and whose onclose has not run, and isConnected is never true while a
\* transport of the provider is still connecting or a reconnect is pending.
C21_ConnectedIffSocketOpen ==
    mounted =>
       /\ isConnected <=> socket # Null
       /\ socket # Null =>
             (ws[socket].owner = inst /\ ws[socket].st \in {"open", "closing", "failed"})
       /\ isConnected =>
             (TimersOf(inst) = 0
              /\ \A s \in Slots : ws[s].owner = inst => ws[s].st # "connecting")

\* The first two conjuncts of C21 alone.
C21_StoredSocketOpen ==
    mounted =>
       /\ isConnected <=> socket # Null
       /\ socket # Null =>
             (ws[socket].owner = inst /\ ws[socket].st \in {"open", "closing", "failed"})

\* The dashboard (WebSocketProvider) and the landing page (BrainSaitApp) are
\* separate pages: a behaviour of SpecPages is a run of one of them, the other
\* staying as constructed.
PollIdle ==
    calls[0].phase = "fetching" /\ ticks = 0 /\ ~pollStarted /\ ~tornDown

NextPages ==
    \/ effectRuns = 0 /\ NextPoll
    \/ PollIdle /\ NextFrames

SpecPages == Init /\ [][NextPages]_vars

\* The malformed frame of RawFrames: a new_alert without an alert object.
AlertMissing == "{\"type\":\"new_alert\"}"

\* C22: no failure of the frame handler (frame that is not JSON, malformed
\* frame) or of a poll (fetch rejected, response not ok, body undecodable)
\* escapes as an uncaught exception or a rejected promise, and neither the
\* handler nor the interval is stopped by it: queued frames can still be
\* handled and the interval can still tick.
C22_NoFailureEscapes ==
    /\ \A s \in Slots : \A i \in 1..Len(handled[s]) : ~handled[s][i].escaped
    /\ \A i \in CallIds : calls[i].phase \in {"none", "fetching", "decoding", "ok", "failed", "notok"}
    /\ \A s \in Slots : inbox[s] # <<>> => ENABLED OnMessage(s)
    /\ (pollStarted /\ ticks < MaxTicks) => ENABLED Tick

\* The handler has met a frame that is not JSON and a malformed frame, both
\* on a socket that is still open.
C22_Witness ==
    /\ \E i, j \in 1..Len(handled[1]) :
          handled[1][i].frame = NotJson /\ handled[1][j].frame = AlertMissing
    /\ ws[1].st = "open"
    /\ isConnected

\* A poll was rejected, the next was answered with a status that is not ok,
\* and a later one succeeded.
C22_WitnessPoll ==
    /\ calls[0].phase = "failed"
    /\ calls[1].phase = "notok"
    /\ calls[2].phase = "ok"
    /\ appConnected

\* The handled frames h whose type makes the Dashboard refetch query r.
RefetchFrames(h, r) ==
    {i \in 1..Len(h) : h[i].merged /\ r \in DashboardRefetches(JSONparse(h[i].frame).obj)}

\* C23: every handled frame whose type calls for it causes one refetch of
\* each of its queries, and no other frame causes any: once all handled
\* frames are rendered, each query has been refetched once per such frame.
C23_RefetchPerFrame ==
    (mounted /\ updates = <<>>) =>
       \A r \in DOMAIN qRefetches :
          qRefetches[r] = Cardinality(RefetchFrames(handled[1], r))

\* The frames of h that were merged and carry key k.
Carriers(h, k) ==
    {i \in 1..Len(h) : h[i].merged /\ JSONparse(h[i].frame).obj[k] # [t |-> "undef"]}

\* The largest element of a non-empty set of numbers.
Newest(S) == CHOOSE i \in S : \A j \in S : j <= i

\* C24: once the handled frames are rendered, every key of the shared data
\* has the value of the newest frame that carried it and is absent when no
\* frame carried it (so data.type is the type of the most recent frame that
\* had one); and no key is ever removed from the data.
C24_RightBiasedMerge ==
    /\ []((mounted /\ updates = <<>>) =>
            \A k \in Keys :
               data[k] = IF Carriers(handled[1], k) = {} THEN [t |-> "undef"]
                         ELSE JSONparse(handled[1][Newest(Carriers(handled[1], k))].frame).obj[k])
    /\ [][(mounted /\ mounted') =>
            \A k \in Keys : data[k] # [t |-> "undef"] => data'[k] # [t |-> "undef"]]_vars

\* A frame carrying an error field, then one without it, are both rendered:
\* the type is the second frame's, the error field the first frame's.
C24_Witness ==
    /\ Len(handled[1]) = 2
    /\ updates = <<>>
    /\ data["type"] = [t |-> "str", s |-> "agent_execution_complete"]
    /\ data["error"] = [t |-> "str", s |-> "boom"]

\* The stored socket is open.
CanSend == socket # Null /\ ws[socket].st = "open"

\* C25: sendMessage and subscribe transmit only when a socket is stored and
\* open, on that socket, the one message of the call; a call made in any other
\* state transmits nothing, and nothing is ever transmitted outside a call: a
\* discarded message is not sent later and a subscription is not sent again
\* when a later connection opens.
C25_SendOnlyWhenOpen ==
    /\ [][sent' # sent =>
            (/\ sendCalls' = sendCalls + 1
             /\ CanSend
             /\ Len(sent') = Len(sent) + 1
             /\ SubSeq(sent', 1, Len(sent)) = sent
             /\ sent'[Len(sent')].via = socket)]_vars
    /\ [][(sendCalls' = sendCalls + 1 /\ ~CanSend) => sent' = sent]_vars
    /\ [][(sendCalls' = sendCalls + 1 /\ CanSend) => sent' # sent]_vars

\* A subscription was transmitted, a call made while disconnected was
\* discarded, and a later connection is open: still one message was sent.
C25_Witness ==
    /\ sendCalls = 2
    /\ Len(sent) = 1
    /\ sent[1].text = "{\"type\":\"subscribe\",\"topic\":\"agent-metrics\"}"
    /\ Toast("error", <<"Disconnected from real-time updates">>) \in toasts
    /\ isConnected
    /\ ws[socket].st = "open"

\* Every syncContent invocation made so far has finished.
SyncsFinished ==
    \A i \in SyncIds : syncCalls[i].phase \notin {"fetching", "decoding", "loading"}

\* C26: once every running content sync has finished, the sync button is
\* enabled and shows the label it had before any sync began.
C26_ButtonRestored ==
    SyncsFinished => syncBtn = [innerHTML |-> "Sync Content", disabled |-> FALSE]

SpecSync == Init /\ [][NextSync]_vars

\* The responses sent so far that carry id n.
ResponsesTo(n) == {i \in 1..Len(mcpOut) : mcpOut[i].id = n}

\* C27: when handling a message fails, the server sends exactly one error
\* response with code -1 carrying the id of the failing request, on the
\* connection it came from, and goes on serving.
C27_ErrorResponse ==
    /\ mcpAlive
    /\ \A n \in ReqIds :
          (mcpReqs[n].phase = "failed" /\ mcpReqs[n].msg.json) =>
             /\ Cardinality(ResponsesTo(n)) = 1
             /\ \A i \in ResponsesTo(n) :
                   mcpOut[i] = [conn |-> mcpReqs[n].conn, id |-> n, kind |-> "error",
                                what |-> "", code |-> -1]

\* C28: every successfully handled initialize, tools/list or tools/call
\* request gets exactly one response, a result with the request's id on the
\* request's connection, whatever the order in which concurrent tools/call
\* requests complete; a request with another method gets no response; and no
\* response is sent for a request before its handling has ended.
C28_ResultPerRequest ==
    /\ [](\A n \in ReqIds :
            mcpReqs[n].phase = "done" =>
               IF mcpReqs[n].msg.method \in {"initialize", "tools/list", "tools/call"}
               THEN /\ Cardinality(ResponsesTo(n)) = 1
                    /\ \A i \in ResponsesTo(n) :
                          mcpOut[i].kind = "result" /\ mcpOut[i].conn = mcpReqs[n].conn
               ELSE ResponsesTo(n) = {})
    /\ [](\A n \in ReqIds :
            mcpReqs[n].phase \in {"none", "awaiting"} => ResponsesTo(n) = {})
    /\ [][Len(mcpOut') >= Len(mcpOut) /\ SubSeq(mcpOut', 1, Len(mcpOut)) = mcpOut]_vars

\* Two tools/call requests on different connections were in progress at once
\* and the second was answered first.
C28_Witness ==
    /\ Len(mcpOut) = 2
    /\ mcpReqs[1].phase = "done" /\ mcpReqs[2].phase = "done"
    /\ mcpReqs[1].msg.method = "tools/call" /\ mcpReqs[2].msg.method = "tools/call"
    /\ mcpReqs[1].conn # mcpReqs[2].conn
    /\ mcpOut[1].id = 2 /\ mcpOut[2].id = 1

SpecMcp == Init /\ [][NextMcp]_vars

SpecPoll == Init /\ [][NextPoll]_vars

SpecQuery == Init /\ [][NextQuery]_vars

====
